---- MODULE Spec2Model ----
(***************************************************************************)
(* Aira backend: the POST /chat endpoint (src/main.py) and the agent       *)
(* module it calls (src/agent.py): crisis screener, crisis responder,      *)
(* agent factory, and the response extraction / filtering of the handler.  *)
(*                                                                         *)
(* Text is modelled by TLA+ strings, character by character.  TLA+ string  *)
(* literals are ASCII only, so the few non-ASCII characters of the source  *)
(* texts are transliterated: the em dash as "--", the green heart as "<3", *)
(* the flag of India as "[IN]", the globe as "[INTL]", and the native      *)
(* script names in LANGUAGE_NAMES by their English names.  Messages are    *)
(* ASCII as well, and str.lower is modelled on the letters A-Z.            *)
(***************************************************************************)
EXTENDS Integers, Sequences, FiniteSets, TLC

(***************************************************************************)
(* Bounds of the model                                                     *)
(***************************************************************************)
\* requests handled in one behaviour of the endpoint
MaxRequests == 2
\* longest messages list of a run result
MaxMessages == 2
\* longest padding put before a screened message
MaxPad == 2

(***************************************************************************)
(* Python strings                                                          *)
(***************************************************************************)
ascii_uppercase == "ABCDEFGHIJKLMNOPQRSTUVWXYZ"

ascii_lowercase == "abcdefghijklmnopqrstuvwxyz"

CharAt(s, i) == SubSeq(s, i, i)

\* str.lower() of the upper-case letters, a character to a character
LOWER_OF ==
    [c \in {CharAt(ascii_uppercase, i) : i \in 1..Len(ascii_uppercase)} |->
        CharAt(ascii_lowercase,
               CHOOSE i \in 1..Len(ascii_uppercase) : CharAt(ascii_uppercase, i) = c)]

\* str.lower() of a one-character string
lower_char(c) ==
    IF c \in DOMAIN LOWER_OF THEN LOWER_OF[c] ELSE c

\* a faulty variant: the message is not lower-cased
lower_identity(s) == s

\* str.lower(): every character lower-cased, the length unchanged
RECURSIVE lower(_)
lower(s) ==
    IF Len(s) = 0 THEN ""
    ELSE IF Len(s) = 1 THEN lower_char(s)
    ELSE LET h == Len(s) \div 2
         IN  lower(SubSeq(s, 1, h)) \o lower(SubSeq(s, h + 1, Len(s)))

\* Python's `p in s` on strings
Contains(s, p) ==
    \E i \in 1..(Len(s) - Len(p) + 1) : SubSeq(s, i, i + Len(p) - 1) = p

\* s * n
RECURSIVE Repeat(_, _)
Repeat(s, n) ==
    IF n = 0 THEN ""
    ELSE LET half == Repeat(s, n \div 2)
         IN  IF n % 2 = 0 THEN half \o half ELSE half \o half \o s

\* s.split("\n")
split_lines(s) ==
    LET breaks == {i \in 1..Len(s) : CharAt(s, i) = "\n"}
        \* position of the k-th line break; 0 before the first line and
        \* Len(s) + 1 after the last
        break(k) == IF k = 0 THEN 0
                    ELSE IF k > Cardinality(breaks) THEN Len(s) + 1
                    ELSE CHOOSE i \in breaks : Cardinality({j \in breaks : j < i}) = k - 1
    IN  [k \in 1..(Cardinality(breaks) + 1) |-> SubSeq(s, break(k - 1) + 1, break(k) - 1)]

\* "\n".join(lines)
RECURSIVE join_lines(_)
join_lines(lines) ==
    IF Len(lines) = 0 THEN ""
    ELSE IF Len(lines) = 1 THEN lines[1]
    ELSE LET h == Len(lines) \div 2
         IN  join_lines(SubSeq(lines, 1, h)) \o "\n"
                 \o join_lines(SubSeq(lines, h + 1, Len(lines)))

IsBlankChar(c) == c = " " \/ c = "\t"

\* the leading run of spaces and tabs of a line
leading_whitespace(line) ==
    LET n == CHOOSE k \in 0..Len(line) :
                 /\ \A j \in 1..k : IsBlankChar(CharAt(line, j))
                 /\ k < Len(line) => ~IsBlankChar(CharAt(line, k + 1))
    IN  SubSeq(line, 1, n)

common_prefix(a, b) ==
    LET n == CHOOSE k \in 0..Len(a) :
                 /\ k <= Len(b)
                 /\ SubSeq(a, 1, k) = SubSeq(b, 1, k)
                 /\ (k < Len(a) /\ k < Len(b)) => CharAt(a, k + 1) # CharAt(b, k + 1)
    IN  SubSeq(a, 1, n)

\* the longest prefix common to the leading whitespace of all the lines
RECURSIVE common_margin(_)
common_margin(lines) ==
    IF Len(lines) = 1 THEN leading_whitespace(lines[1])
    ELSE LET h == Len(lines) \div 2
         IN  common_prefix(common_margin(SubSeq(lines, 1, h)),
                           common_margin(SubSeq(lines, h + 1, Len(lines))))

\* textwrap.dedent: lines of only spaces and tabs become empty, and the
\* longest whitespace prefix common to the other lines is removed from them
dedent(text) ==
    LET raw == split_lines(text)
        blank(line) == leading_whitespace(line) = line
        lines == [i \in 1..Len(raw) |-> IF blank(raw[i]) THEN "" ELSE raw[i]]
        inked == SelectSeq(lines, LAMBDA l : l # "")
        margin == IF Len(inked) = 0 THEN "" ELSE common_margin(inked)
    IN  join_lines([i \in 1..Len(lines) |->
                       IF lines[i] = "" THEN ""
                       ELSE SubSeq(lines[i], Len(margin) + 1, Len(lines[i]))])

(***************************************************************************)
(* src/agent.py                                                            *)
(***************************************************************************)
LANGUAGE_NAMES ==
    [en |-> "English",
     hi |-> "Hindi (Hindi)",
     te |-> "Telugu (Telugu)",
     ta |-> "Tamil (Tamil)",
     kn |-> "Kannada (Kannada)"]

\* LANGUAGE_NAMES.get(language, 'English')
lang_name(language) ==
    IF language \in DOMAIN LANGUAGE_NAMES THEN LANGUAGE_NAMES[language] ELSE "English"

\* the f-string of lines 44-49, used for every language but 'en'
language_instruction(language) ==
    IF language # "en"
    THEN "\n"
         \o "    \n"
         \o "    IMPORTANT: You MUST respond in "
         \o lang_name(language)
         \o ". \n"
         \o "    The user may write in any language, but you should ALWAYS respond in "
         \o lang_name(language)
         \o ".\n"
         \o "    If the language is Hindi, Telugu, Tamil, or Kannada, use the native script.\n"
         \o "    "
    ELSE ""

\* the f-string of lines 54-98, before dedent
instructions_template(language) ==
    "            You are Aira -- the user's warm, caring best friend who happens to be \n"
    \o "            amazing at emotional support.\n"
    \o "            "
    \o language_instruction(language)
    \o "\n"
    \o "            \n"
    \o "            Your vibe:\n"
    \o "            - You're like that one friend who always knows what to say\n"
    \o "            - Warm, genuine, and relatable -- not robotic or clinical\n"
    \o "            - You use casual, friendly language (but still thoughtful)\n"
    \o "            - You remember you're chatting with a friend, not a patient\n"
    \o "            \n"
    \o "            How you talk:\n"
    \o "            - Keep it natural and conversational\n"
    \o "            - Use \"hey\", \"I get it\", \"that sounds tough\", \"honestly\"\n"
    \o "            - Short, punchy responses when appropriate\n"
    \o "            - Longer, thoughtful ones when they need it\n"
    \o "            - Match their energy -- if they're casual, you're casual\n"
    \o "            - It's okay to be playful when the mood is light\n"
    \o "            \n"
    \o "            What makes you a great friend:\n"
    \o "            - You actually listen and remember what they share\n"
    \o "            - You validate without judgment\n"
    \o "            - You ask the right follow-up questions\n"
    \o "            - You know when to just be there vs. when to offer advice\n"
    \o "            - You gently push them when they're stuck, but never force\n"
    \o "            \n"
    \o "            You're still emotionally intelligent:\n"
    \o "            - Notice when something feels off\n"
    \o "            - Gently check in on how they're really doing\n"
    \o "            - Encourage them to reach out to real people when things get heavy\n"
    \o "            - Know when humor helps vs. when they need serious support\n"
    \o "            \n"
    \o "            What you DON'T do:\n"
    \o "            - Sound like a therapist or chatbot\n"
    \o "            - Use formal or clinical language\n"
    \o "            - Give unsolicited lectures\n"
    \o "            - Be fake positive or dismissive\n"
    \o "            - Enable harmful thinking\n"
    \o "            \n"
    \o "            Your goal: Make them feel like they're texting their most \n"
    \o "            understanding, emotionally intelligent best friend who always \n"
    \o "            has time for them.\n"
    \o "            \n"
    \o "            You are Aira -- their person. <3\n"
    \o "        "

\* the language codes the model builds agents for: the catalog's, and codes
\* that are not in it
LanguageCodes == {"en", "hi", "te", "ta", "kn", "fr", "de", "EN", "hin", ""}

\* instructions=dedent(f"""...""") of lines 54-98, by language
instructions ==
    [language \in LanguageCodes |-> dedent(instructions_template(language))]

DEFAULT_DB_PATH == "data/aira.db"

\* a faulty variant: the session_id is not passed on to the Agent
create_agent_default_session(user_id, session_id, language) ==
    [model        |-> "gemini-2.0-flash",
     db           |-> DEFAULT_DB_PATH,
     instructions |-> instructions[language],
     user_id      |-> user_id,
     session_id   |-> "default",
     markdown     |-> TRUE]

\* create_agent(user_id, session_id, language): the Agent it returns
create_agent(user_id, session_id, language) ==
    [model        |-> "gemini-2.0-flash",
     db           |-> DEFAULT_DB_PATH,
     instructions |-> instructions[language],
     user_id      |-> user_id,
     session_id   |-> session_id,
     markdown     |-> TRUE]

CRISIS_KEYWORDS ==
    <<"suicide", "kill myself", "end my life", "want to die",
      "self harm", "cut myself", "hurt myself", "no reason to live",
      "suicidal", "ending it all", "better off dead">>

detect_crisis(message) ==
    LET message_lower == lower(message)
    IN  \E k \in 1..Len(CRISIS_KEYWORDS) : Contains(message_lower, CRISIS_KEYWORDS[k])

get_crisis_response ==
    dedent("        I hear that you're going through something really difficult right now. \n"
           \o "        Your feelings are valid, and I'm glad you're reaching out.\n"
           \o "        \n"
           \o "        Please know that you don't have to face this alone. \n"
           \o "        There are people who want to help:\n"
           \o "        \n"
           \o "        [IN] India:\n"
           \o "        - iCall: 9152987821\n"
           \o "        - Vandrevala Foundation: 1860-2662-345\n"
           \o "        - NIMHANS: 080-46110007\n"
           \o "        \n"
           \o "        [INTL] International:\n"
           \o "        - International Association for Suicide Prevention: \n"
           \o "          https://www.iasp.info/resources/Crisis_Centres/\n"
           \o "        \n"
           \o "        Would you like to talk about what you're feeling? \n"
           \o "        I'm here to listen, and there's no rush.\n"
           \o "    ")

(***************************************************************************)
(* Python values                                                           *)
(***************************************************************************)
\* Optional[str]: None, or <<s>> for the string s
None == <<>>

Some(v) == <<v>>

\* bool(x) of an Optional[str]: None and "" are falsy
truthy(x) == x # None /\ x[1] # ""

\* An object as the handler probes it: its type, its value when it is a str,
\* str(obj), bool(obj), and its `text` attribute when it has one.
PyStr(s) ==
    [type |-> "str", value |-> s, repr |-> s, bool |-> (s # ""),
     has_text |-> FALSE, text |-> ""]

PyNone ==
    [type |-> "NoneType", value |-> "", repr |-> "None", bool |-> FALSE,
     has_text |-> FALSE, text |-> ""]

\* an object that is not a str and has no `text` attribute (a list, a dict)
PyObject(repr, bool) ==
    [type |-> "object", value |-> "", repr |-> repr, bool |-> bool,
     has_text |-> FALSE, text |-> ""]

\* an object with a `text` attribute (an HTTP Response object)
PyResponse(repr, text) ==
    [type |-> "Response", value |-> "", repr |-> repr, bool |-> TRUE,
     has_text |-> TRUE, text |-> text]

\* a message of run_response.messages: with or without a content attribute
Message(has_content, content) ==
    [has_content |-> has_content, content |-> content]

\* the value agent.run returns: None, or an object that may have a content
\* attribute, may have a messages attribute, and has a str()
RunNone ==
    [is_none |-> TRUE, has_content |-> FALSE, content |-> PyNone,
     has_messages |-> FALSE, messages |-> <<>>, repr |-> "None"]

RunResponse(has_content, content, has_messages, messages, repr) ==
    [is_none |-> FALSE, has_content |-> has_content, content |-> content,
     has_messages |-> has_messages, messages |-> messages, repr |-> repr]

(***************************************************************************)
(* src/main.py: POST /chat                                                 *)
(***************************************************************************)
min_length == 1

max_length == 5000

\* a faulty variant: max_length is not enforced
ChatRequest_errors_unbounded(message) ==
    IF message = None THEN <<[loc |-> <<"body", "message">>, type |-> "missing"]>>
    ELSE IF Len(message[1]) < min_length
         THEN <<[loc |-> <<"body", "message">>, type |-> "string_too_short"]>>
    ELSE <<>>

\* ChatRequest: the validation errors of the message field
ChatRequest_errors(message) ==
    IF message = None THEN <<[loc |-> <<"body", "message">>, type |-> "missing"]>>
    ELSE IF Len(message[1]) < min_length
         THEN <<[loc |-> <<"body", "message">>, type |-> "string_too_short"]>>
    ELSE IF Len(message[1]) > max_length
         THEN <<[loc |-> <<"body", "message">>, type |-> "string_too_long"]>>
    ELSE <<>>

\* the 422 response FastAPI sends when the body does not validate
validation_reply(errors) ==
    [status |-> 422, body |-> [detail |-> errors]]

\* a faulty variant: `is None` instead of falsiness, an empty id is kept
resolve_session_id_if_none(session_id, uuid4) ==
    IF session_id # None THEN session_id[1] ELSE uuid4

\* session_id = request.session_id or str(uuid4())
resolve_session_id(session_id, uuid4) ==
    IF truthy(session_id) THEN session_id[1] ELSE uuid4

\* user_id = request.user_id or "anonymous"
resolve_user_id(user_id) ==
    IF truthy(user_id) THEN user_id[1] ELSE "anonymous"

\* a faulty variant: is_crisis left at its default, False
crisis_reply_unflagged(session_id) ==
    [status |-> 200,
     body |-> [response |-> get_crisis_response, session_id |-> session_id,
               is_crisis |-> FALSE]]

\* the ChatResponse of the crisis branch
crisis_reply(session_id) ==
    [status |-> 200,
     body |-> [response |-> get_crisis_response, session_id |-> session_id,
               is_crisis |-> TRUE]]

\* the text of a content that is not unwrapped: itself if a str, else str()
plain_or_str(content) ==
    IF content.type = "str" THEN content.value ELSE content.repr

\* a faulty variant: the messages are scanned oldest first
oldest_content(messages) ==
    LET usable == {i \in DOMAIN messages :
                      messages[i].has_content /\ messages[i].content.bool}
    IN  IF usable = {} THEN ""
        ELSE plain_or_str(messages[CHOOSE i \in usable : \A j \in usable : i <= j].content)

\* the for loop over reversed(messages): the content of the newest message
\* that has a truthy content, "" when there is none
RECURSIVE newest_content(_)
newest_content(messages) ==
    IF Len(messages) = 0 THEN ""
    ELSE LET msg == messages[Len(messages)]
         IN  IF msg.has_content /\ msg.content.bool
             THEN plain_or_str(msg.content)
             ELSE newest_content(SubSeq(messages, 1, Len(messages) - 1))

\* a faulty variant: the messages branch is missing
extract_text_without_messages(run_response) ==
    IF run_response.is_none THEN ""
    ELSE IF run_response.has_content /\ run_response.content.bool
         THEN LET content == run_response.content
              IN  IF content.has_text THEN content.text
                  ELSE plain_or_str(content)
    ELSE run_response.repr

\* response_text after the extraction block
extract_text(run_response) ==
    IF run_response.is_none THEN ""
    ELSE IF run_response.has_content /\ run_response.content.bool
         THEN LET content == run_response.content
              IN  IF content.has_text THEN content.text
                  ELSE plain_or_str(content)
    ELSE IF run_response.has_messages /\ Len(run_response.messages) > 0
         THEN newest_content(run_response.messages)
    ELSE run_response.repr

FALLBACK_TEXT == "I'm here with you. Would you like to share more?"

\* a faulty variant: replies containing "Error" pass the filter
filter_text_lenient(response_text) ==
    IF response_text = "" \/ Contains(response_text, "<Response")
    THEN FALLBACK_TEXT
    ELSE response_text

\* response_text after the filter of error-like responses
filter_text(response_text) ==
    IF response_text = ""
       \/ Contains(response_text, "<Response")
       \/ Contains(response_text, "Error")
    THEN FALLBACK_TEXT
    ELSE response_text

\* the ChatResponse of the normal branch
normal_reply(response_text, session_id) ==
    [status |-> 200,
     body |-> [response |-> response_text, session_id |-> session_id,
               is_crisis |-> FALSE]]

ERROR_DETAIL == "I'm having trouble responding right now. Please try again in a moment."

\* a faulty variant: the exception text is sent to the client
error_reply_echo(exception) ==
    [status |-> 500, body |-> [detail |-> exception]]

\* the HTTPException of the except clause
error_reply(exception) ==
    [status |-> 500, body |-> [detail |-> ERROR_DETAIL]]

\* The session store after agent.run(message) returned: the session of the
\* agent's (user_id, session_id) exists and has the turn appended.
agent_run_store(sessions, agent, message) ==
    LET key == <<agent.user_id, agent.session_id>>
        history == IF key \in DOMAIN sessions THEN sessions[key] ELSE <<>>
    IN  [k \in DOMAIN sessions \cup {key} |->
            IF k = key THEN Append(history, message) ELSE sessions[k]]

(***************************************************************************)
(* State                                                                   *)
(***************************************************************************)
VARIABLES
    request,        \* the last HTTP request, None before the first
    response,       \* the response to it
    calls,          \* what the handler called while serving it, in order
    raised,         \* the exception raised inside the try block, or None
    agent,          \* the agent create_agent returned, or None
    run_response,   \* what agent.run returned, or None
    extracted,      \* response_text after the extraction block, or None
    response_text,  \* response_text after the filter, or None
    store,          \* the session store: (user_id, session_id) -> history
    issued,         \* the identifiers uuid4 has returned
    provider,       \* the model provider as the handler last found it
    store_ok,       \* whether the handler last found the session store usable
    handled,        \* the number of POST /chat requests so far
    message,        \* the message given to the crisis screener
    is_crisis,      \* what detect_crisis returned for it, or None
    args            \* the arguments given to the agent factory

vars ==
    <<request, response, calls, raised, agent, run_response, extracted,
      response_text, store, issued, provider, store_ok, handled, message,
      is_crisis, args>>

(***************************************************************************)
(* The inputs the model draws from                                         *)
(***************************************************************************)
\* a message one character over max_length that ends in a crisis phrase
OverlongCrisisMessage == Repeat("a", max_length - 10) \o "want to die"

ChatMessages ==
    {None, Some(""), Some("hello"), Some("I want to die"),
     Some("I feel SUICIDAL today"), Some(OverlongCrisisMessage)}

UserIds == {None, Some("u1")}

\* the identifiers uuid4 can return
UUIDs == {"uuid4-" \o ToString(i) : i \in 1..MaxRequests}

\* a client sends no session_id, an empty one, its own, or one it was given
SessionIds == {None, Some(""), Some("s1")} \cup {Some(u) : u \in issued}

\* (provider, session store) as a request can find them
Environments ==
    {<<"ok", TRUE>>, <<"unconfigured", TRUE>>, <<"unreachable", TRUE>>,
     <<"ok", FALSE>>}

\* the exception a broken environment makes create_agent or agent.run raise
exception_of(env_provider, env_store_ok) ==
    IF ~env_store_ok THEN "OperationalError: unable to open database file"
    ELSE IF env_provider = "unconfigured"
         THEN "ProviderConfigurationError: GOOGLE_API_KEY not set"
    ELSE "ProviderInvocationError: 503 Service Unavailable"

ChatRunResults ==
    {RunNone,
     RunResponse(TRUE, PyStr("I'm glad you shared that"), TRUE, <<>>, "RunOutput(...)"),
     RunResponse(TRUE, PyNone, TRUE,
                 <<Message(TRUE, PyStr("hello")), Message(TRUE, PyStr("Hey, I'm here."))>>,
                 "RunOutput(...)"),
     RunResponse(TRUE, PyResponse("<Response [429]>", "quota exceeded"), FALSE, <<>>,
                 "RunOutput(...)"),
     RunResponse(TRUE, PyStr("Error code: 503"), FALSE, <<>>, "RunOutput(...)"),
     RunResponse(TRUE, PyStr("No Errors in what you said."), FALSE, <<>>, "RunOutput(...)"),
     RunResponse(FALSE, PyNone, FALSE, <<>>, "<Response [500]>")}

(***************************************************************************)
(* POST /chat, GET /health, GET /                                          *)
(***************************************************************************)
HandlerIdle ==
    /\ agent = None
    /\ run_response = None
    /\ extracted = None
    /\ response_text = None

ScreenerIdle == message = None /\ is_crisis = None

FactoryIdle == args = None

Init ==
    /\ request = None
    /\ response = None
    /\ calls = <<>>
    /\ raised = None
    /\ HandlerIdle
    /\ store = <<>>
    /\ issued = {}
    /\ provider = "ok"
    /\ store_ok = TRUE
    /\ handled = 0
    /\ ScreenerIdle
    /\ FactoryIdle

\* the request did not validate: the handler is not entered
ChatInvalid(errors) ==
    /\ response' = validation_reply(errors)
    /\ calls' = <<>>
    /\ raised' = None
    /\ agent' = None
    /\ run_response' = None
    /\ extracted' = None
    /\ response_text' = None
    /\ UNCHANGED <<store, issued, provider, store_ok>>

\* the crisis branch: lines 103-109
ChatCrisis(session_id, id_calls) ==
    /\ response' = crisis_reply(session_id)
    /\ calls' = id_calls \o <<"detect_crisis", "get_crisis_response">>
    /\ raised' = None
    /\ agent' = None
    /\ run_response' = None
    /\ extracted' = None
    /\ response_text' = None
    /\ UNCHANGED store

\* create_agent or agent.run raised: the except clause
ChatFault(user_id, session_id, id_calls, fault_at, exception) ==
    /\ response' = error_reply(exception)
    /\ calls' = id_calls \o <<"detect_crisis", "create_agent">>
                   \o (IF fault_at = "agent.run" THEN <<"agent.run">> ELSE <<>>)
    /\ raised' = Some(exception)
    /\ agent' = IF fault_at = "agent.run"
                THEN Some(create_agent(user_id, session_id, "en"))
                ELSE None
    /\ run_response' = None
    /\ extracted' = None
    /\ response_text' = None
    /\ UNCHANGED store

\* the normal branch: lines 111-154
ChatNormal(text, user_id, session_id, id_calls, result) ==
    LET new_agent == create_agent(user_id, session_id, "en")
    IN  /\ response' = normal_reply(filter_text(extract_text(result)), session_id)
        /\ calls' = id_calls \o <<"detect_crisis", "create_agent", "agent.run">>
        /\ raised' = None
        /\ agent' = Some(new_agent)
        /\ run_response' = Some(result)
        /\ extracted' = Some(extract_text(result))
        /\ response_text' = Some(filter_text(extract_text(result)))
        /\ store' = agent_run_store(store, new_agent, text)

Chat ==
    /\ handled < MaxRequests
    /\ handled' = handled + 1
    /\ UNCHANGED <<message, is_crisis, args>>
    /\ \E message_in \in ChatMessages :
          LET errors == ChatRequest_errors(message_in)
              crisis == detect_crisis(message_in[1])
          IN  \E session_id_in \in SessionIds, user_id_in \in UserIds :
                 /\ request' = [method |-> "POST", path |-> "/chat",
                                message |-> message_in,
                                session_id |-> session_id_in,
                                user_id |-> user_id_in]
                 /\ IF errors # <<>>
                    THEN ChatInvalid(errors)
                    ELSE \E env \in Environments,
                            uuid4 \in IF truthy(session_id_in) THEN {""}
                                      ELSE UUIDs \ issued :
                            LET session_id == resolve_session_id(session_id_in, uuid4)
                                user_id == resolve_user_id(user_id_in)
                                id_calls == IF truthy(session_id_in) THEN <<>>
                                            ELSE <<"uuid4">>
                            IN  /\ provider' = env[1]
                                /\ store_ok' = env[2]
                                /\ issued' = IF truthy(session_id_in) THEN issued
                                             ELSE issued \cup {uuid4}
                                /\ IF crisis
                                   THEN ChatCrisis(session_id, id_calls)
                                   ELSE IF env = <<"ok", TRUE>>
                                   THEN \E result \in ChatRunResults :
                                           ChatNormal(message_in[1], user_id,
                                                      session_id, id_calls, result)
                                   ELSE \E fault_at \in {"create_agent", "agent.run"} :
                                           ChatFault(user_id, session_id, id_calls,
                                                     fault_at,
                                                     exception_of(env[1], env[2]))

health_check ==
    /\ request' = [method |-> "GET", path |-> "/health"]
    /\ response' = [status |-> 200,
                    body |-> [status |-> "healthy", service |-> "aira",
                              version |-> "1.0.0"]]
    /\ calls' = <<>>
    /\ raised' = None
    /\ agent' = None
    /\ run_response' = None
    /\ extracted' = None
    /\ response_text' = None
    /\ UNCHANGED <<store, issued, provider, store_ok, handled, message, is_crisis, args>>

root ==
    /\ request' = [method |-> "GET", path |-> "/"]
    /\ response' = [status |-> 200,
                    body |-> [name |-> "Aira", version |-> "1.0.0",
                              endpoints |-> {"/chat", "/health", "/docs"}]]
    /\ calls' = <<>>
    /\ raised' = None
    /\ agent' = None
    /\ run_response' = None
    /\ extracted' = None
    /\ response_text' = None
    /\ UNCHANGED <<store, issued, provider, store_ok, handled, message, is_crisis, args>>

Next == Chat \/ health_check \/ root

Spec == Init /\ [][Next]_vars

(***************************************************************************)
(* The crisis screener alone: detect_crisis applied to a message           *)
(***************************************************************************)
\* the inverse of LOWER_OF, to write a message in upper case
UPPER_OF ==
    [c \in {CharAt(ascii_lowercase, i) : i \in 1..Len(ascii_lowercase)} |->
        CharAt(ascii_uppercase,
               CHOOSE i \in 1..Len(ascii_lowercase) : CharAt(ascii_lowercase, i) = c)]

upper_char(c) ==
    IF c \in DOMAIN UPPER_OF THEN UPPER_OF[c] ELSE c

Casings == {"lower", "upper", "title", "alternating"}

\* whether the casing writes the letter at position i in upper case
shifted(casing, i) ==
    CASE casing = "lower" -> FALSE
      [] casing = "upper" -> TRUE
      [] casing = "title" -> i = 1
      [] casing = "alternating" -> i % 2 = 0

\* s with its letters in the given casing; from is the position of s[1]
RECURSIVE recase(_, _, _)
recase(s, casing, from) ==
    IF Len(s) = 0 THEN ""
    ELSE (IF shifted(casing, from) THEN upper_char(lower_char(CharAt(s, 1)))
          ELSE lower_char(CharAt(s, 1)))
         \o recase(SubSeq(s, 2, Len(s)), casing, from + 1)

cased(s, casing) == recase(s, casing, 1)

\* texts that come close to a crisis phrase and contain none
NearMisses ==
    {"", "hello", "suicid", "kill  myself", "killmyself", "want to dance",
     "self-harm", "better of dead", "no reason to leave", "end my lif",
     "i cut my self", "hurt my elf"}

ScreenedTexts == {CRISIS_KEYWORDS[k] : k \in 1..Len(CRISIS_KEYWORDS)} \cup NearMisses

ScreenedMessages ==
    {Repeat("x", pad) \o cased(text, casing) \o suffix :
        pad \in 0..MaxPad, text \in ScreenedTexts, casing \in Casings,
        suffix \in {"", " now", "s"}}

InitScreener ==
    /\ request = None
    /\ response = None
    /\ calls = <<>>
    /\ raised = None
    /\ HandlerIdle
    /\ store = <<>>
    /\ issued = {}
    /\ provider = "ok"
    /\ store_ok = TRUE
    /\ handled = 0
    /\ message \in {Some(m) : m \in ScreenedMessages}
    /\ is_crisis = None
    /\ FactoryIdle

Screen ==
    /\ message # None
    /\ is_crisis = None
    /\ is_crisis' = Some(detect_crisis(message[1]))
    /\ UNCHANGED <<request, response, calls, raised, agent, run_response, extracted,
                   response_text, store, issued, provider, store_ok, handled,
                   message, args>>

NextScreener == Screen

SpecScreener == InitScreener /\ [][NextScreener]_vars

(***************************************************************************)
(* The agent factory alone: create_agent applied to its arguments          *)
(***************************************************************************)
FactoryArgs ==
    [user_id : {"anonymous", "test_user"},
     session_id : {"s1", "uuid4-1", "test_session"},
     language : LanguageCodes]

InitFactory ==
    /\ request = None
    /\ response = None
    /\ calls = <<>>
    /\ raised = None
    /\ HandlerIdle
    /\ store = <<>>
    /\ issued = {}
    /\ provider = "ok"
    /\ store_ok = TRUE
    /\ handled = 0
    /\ ScreenerIdle
    /\ args \in {Some(a) : a \in FactoryArgs}

Create ==
    /\ args # None
    /\ agent = None
    /\ agent' = Some(create_agent(args[1].user_id, args[1].session_id, args[1].language))
    /\ UNCHANGED <<request, response, calls, raised, run_response, extracted,
                   response_text, store, issued, provider, store_ok, handled,
                   message, is_crisis, args>>

NextFactory == Create

SpecFactory == InitFactory /\ [][NextFactory]_vars

(***************************************************************************)
(* The extraction and the filter alone, applied to a run result            *)
(***************************************************************************)
Contents ==
    {PyNone, PyStr(""), PyStr("I'm glad you shared that"), PyStr("Error code: 503"),
     PyStr("see <Response [200]>"),
     PyResponse("<Response [500]>", "Internal Server Error"),
     PyResponse("<Response [429]>", "quota exceeded"),
     PyResponse("<Response [204]>", ""),
     PyObject("['a', 'b']", TRUE), PyObject("[]", FALSE),
     PyObject("{'Error': 1}", TRUE)}

MessageContents ==
    {PyNone, PyStr(""), PyStr("Hey, I'm here."), PyStr("TypeError: bad"),
     PyObject("[1]", TRUE), PyResponse("<Response [500]>", "oops")}

Messages ==
    {Message(FALSE, PyNone)} \cup {Message(TRUE, c) : c \in MessageContents}

MessageLists == UNION {[1..n -> Messages] : n \in 0..MaxMessages}

Reprs == {"RunOutput(run_id='r1')", "<Response [502]>", "RunError"}

RunResults ==
    {RunNone}
    \cup {RunResponse(TRUE, c, FALSE, <<>>, r) : c \in Contents, r \in Reprs}
    \cup {RunResponse(FALSE, PyNone, FALSE, <<>>, r) : r \in Reprs}
    \cup {RunResponse(TRUE, c, TRUE, ms, r) :
             c \in Contents, ms \in MessageLists, r \in Reprs}
    \cup {RunResponse(FALSE, PyNone, TRUE, ms, r) : ms \in MessageLists, r \in Reprs}

InitNormalizer ==
    /\ request = None
    /\ response = None
    /\ calls = <<>>
    /\ raised = None
    /\ agent = None
    /\ run_response \in {Some(r) : r \in RunResults}
    /\ extracted = None
    /\ response_text = None
    /\ store = <<>>
    /\ issued = {}
    /\ provider = "ok"
    /\ store_ok = TRUE
    /\ handled = 0
    /\ ScreenerIdle
    /\ FactoryIdle

Normalize ==
    /\ run_response # None
    /\ extracted = None
    /\ extracted' = Some(extract_text(run_response[1]))
    /\ response_text' = Some(filter_text(extract_text(run_response[1])))
    /\ UNCHANGED <<request, response, calls, raised, agent, run_response, store,
                   issued, provider, store_ok, handled, message, is_crisis, args>>

NextNormalizer == Normalize

SpecNormalizer == InitNormalizer /\ [][NextNormalizer]_vars

(***************************************************************************)
(* Properties                                                              *)
(***************************************************************************)
Range(s) == {s[i] : i \in DOMAIN s}

\* the last request was a POST /chat
ChatServed == request # None /\ request.path = "/chat"

\* ... whose body validated: a message of 1 to 5000 characters
ChatAccepted ==
    /\ ChatServed
    /\ request.message # None
    /\ Len(request.message[1]) >= min_length
    /\ Len(request.message[1]) <= max_length

\* the request carried no usable session_id: absent, null or empty
NoSessionId(req) == req.session_id = None \/ req.session_id = Some("")

\* the user_id the handler works with
UserOf(req) ==
    IF req.user_id = None \/ req.user_id = Some("") THEN "anonymous" ELSE req.user_id[1]

\* C1: a valid POST /chat whose message makes detect_crisis true ends in a 200
\* response with exactly the text of get_crisis_response() and is_crisis =
\* true, and neither create_agent nor agent.run was called for it, whatever
\* the state of the model provider and of the session store.
C1_CrisisShortCircuits ==
    ChatAccepted =>
        \/ /\ response.status = 200
           /\ response.body.is_crisis = TRUE
           /\ response.body.response = get_crisis_response
           /\ "create_agent" \notin Range(calls)
           /\ "agent.run" \notin Range(calls)
           /\ agent = None
           /\ run_response = None
        \/ ~detect_crisis(request.message[1])

C1_Witness ==
    /\ ChatAccepted
    /\ request.message = Some("I feel SUICIDAL today")
    /\ provider = "unreachable"
    /\ response.status = 200
    /\ response.body.is_crisis = TRUE

\* the eleven crisis phrases, as the specification lists them
C2_Phrases ==
    {"suicide", "kill myself", "end my life", "want to die", "self harm",
     "cut myself", "hurt myself", "no reason to live", "suicidal",
     "ending it all", "better off dead"}

\* the character c is the lower-case letter k or its upper-case form, or the
\* same non-letter
C2_SameLetter(c, k) == c = k \/ (k \in DOMAIN UPPER_OF /\ UPPER_OF[k] = c)

\* the phrase occurs in the text at position i, letter case ignored
C2_OccursAt(text, phrase, i) ==
    \A j \in 1..Len(phrase) : C2_SameLetter(CharAt(text, i + j - 1), CharAt(phrase, j))

C2_HasPhrase(text) ==
    \E phrase \in C2_Phrases :
        \E i \in 1..(Len(text) - Len(phrase) + 1) : C2_OccursAt(text, phrase, i)

\* C2: detect_crisis(message) is true exactly when one of the eleven crisis
\* phrases occurs in the message at some position, letter case ignored; and
\* the result is the same for the message written in any other letter case.
C2_ScreenerIsSubstringMatch ==
    is_crisis # None =>
        /\ is_crisis[1] = C2_HasPhrase(message[1])
        /\ \A casing \in Casings :
              detect_crisis(cased(message[1], casing)) = is_crisis[1]

C2_Witness ==
    /\ is_crisis = Some(TRUE)
    /\ message[1] # cased(message[1], "lower")
    /\ Len(message[1]) > Len("no reason to live")

C4_InvalidRejectedFirst ==
    (/\ ChatServed
     /\ request.message # None
     /\ (Len(request.message[1]) = 0 \/ Len(request.message[1]) > 5000)) =>
        /\ response.status >= 400
        /\ response.status <= 499
        /\ calls = <<>>
        /\ agent = None
        /\ run_response = None

C4_Witness ==
    /\ ChatServed
    /\ request.message # None
    /\ Len(request.message[1]) > 5000
    /\ response.status = 422
    /\ handled = 1
    /\ detect_crisis(request.message[1])

\* C5: every 200 response of POST /chat carries a non-empty session_id: the
\* request's when it supplied a non-empty one, and otherwise a generated
\* identifier, which uuid4 had not returned for any earlier request.
C5_SessionIdPopulated ==
    /\ [](ChatServed /\ response.status = 200 =>
            /\ response.body.session_id # ""
            /\ ~NoSessionId(request) => response.body.session_id = request.session_id[1]
            /\ NoSessionId(request) => response.body.session_id \in issued)
    /\ [][(/\ handled' = handled + 1
           /\ response'.status = 200
           /\ NoSessionId(request')) =>
              /\ response'.body.session_id \notin issued
              /\ issued' = issued \cup {response'.body.session_id}]_vars

C5_Witness ==
    /\ ChatServed
    /\ response.status = 200
    /\ request.session_id = Some("")
    /\ response.body.is_crisis = FALSE
    /\ Cardinality(issued) = 2
    /\ response.body.session_id \in issued

\* C6: on the normal branch the reply is never empty: it is the fallback text
\* when the extracted text is empty or contains "<Response" or "Error", and
\* the extracted text unchanged otherwise.
C6_ReplyFiltered ==
    (ChatServed /\ response.status = 200 /\ response.body.is_crisis = FALSE) =>
        LET text == extracted[1]
            reply == response.body.response
        IN  /\ reply # ""
            /\ IF text = "" \/ Contains(text, "<Response") \/ Contains(text, "Error")
               THEN reply = "I'm here with you. Would you like to share more?"
               ELSE reply = text

C6_Witness ==
    /\ ChatServed
    /\ response.status = 200
    /\ extracted = Some("No Errors in what you said.")
    /\ response.body.response = "I'm here with you. Would you like to share more?"

\* the content field of the run result is empty: absent or falsy
C7_EmptyContent(r) == ~r.is_none /\ (~r.has_content \/ ~r.content.bool)

\* the content field of the run result is a plain non-empty string
C7_PlainContent(r) ==
    ~r.is_none /\ r.has_content /\ r.content.type = "str" /\ r.content.value # ""

\* a message has non-empty content
C7_Usable(msg) == msg.has_content /\ msg.content.bool

\* what a result with empty content offers instead: the content of the
\* newest message that has any ("" if none has), or, without messages, the
\* stringification of the result
C7_OtherText(r) ==
    IF r.has_messages /\ r.messages # <<>>
    THEN LET usable == {i \in DOMAIN r.messages : C7_Usable(r.messages[i])}
         IN  IF usable = {} THEN ""
             ELSE LET newest == CHOOSE i \in usable : \A j \in usable : j <= i
                      c == r.messages[newest].content
                  IN  IF c.type = "str" THEN c.value ELSE c.repr
    ELSE r.repr

C7_ErrorLike(text) ==
    text = "" \/ Contains(text, "<Response") \/ Contains(text, "Error")

\* C7 as stated: a run result with empty content always yields the fallback
\* text, whatever its messages list holds, and a run result with plain
\* non-empty string content always yields that string unchanged.
C7_AsStated ==
    response_text # None =>
        LET r == run_response[1]
        IN  /\ C7_EmptyContent(r) =>
                 response_text[1] = "I'm here with you. Would you like to share more?"
            /\ C7_PlainContent(r) => response_text[1] = r.content.value

\* C7, amended: a run result with empty content yields the fallback text when
\* the text its messages list or, without messages, its stringification
\* offers is empty or contains "<Response" or "Error", and yields that text
\* otherwise; a run result with plain non-empty string content yields that
\* string unchanged unless it contains "<Response" or "Error", and the
\* fallback text then.
C7_Amended ==
    response_text # None =>
        LET r == run_response[1]
            fallback == "I'm here with you. Would you like to share more?"
        IN  /\ C7_EmptyContent(r) =>
                 response_text[1] =
                    IF C7_ErrorLike(C7_OtherText(r)) THEN fallback ELSE C7_OtherText(r)
            /\ C7_PlainContent(r) =>
                 response_text[1] =
                    IF C7_ErrorLike(r.content.value) THEN fallback ELSE r.content.value

C7_Witness ==
    /\ response_text = Some("Hey, I'm here.")
    /\ C7_EmptyContent(run_response[1])
    /\ Len(run_response[1].messages) = 2

\* C8: for a language code outside the catalog, create_agent builds the
\* instructions it builds for "en", with no language-override block.
C8_UnknownLanguageIsBase ==
    (args # None /\ agent # None
     /\ args[1].language \notin {"en", "hi", "te", "ta", "kn"}) =>
        /\ agent[1].instructions =
              create_agent(args[1].user_id, args[1].session_id, "en").instructions
        /\ ~Contains(agent[1].instructions, "IMPORTANT: You MUST respond in")

\* C9: the extraction takes the first match of a fixed order.  With non-empty
\* content the text comes from the content alone: its text attribute if it
\* has one, else itself if it is a string, else its stringification.  Else,
\* with a non-empty messages list, it is the content of the newest message
\* that has non-empty content, and empty if no message has any.  Else it is
\* the stringification of the whole result.
C9_ExtractionOrder ==
    (extracted # None /\ run_response # None /\ ~run_response[1].is_none) =>
        LET r == run_response[1]
            filled == r.has_content /\ r.content.bool
            listed == r.has_messages /\ Len(r.messages) > 0
            usable == {i \in DOMAIN r.messages :
                          r.messages[i].has_content /\ r.messages[i].content.bool}
            text_of(c) == IF c.type = "str" THEN c.value ELSE c.repr
        IN  /\ filled =>
                 extracted[1] = IF r.content.has_text THEN r.content.text
                                ELSE text_of(r.content)
            /\ (~filled /\ listed /\ usable # {}) =>
                 \E i \in usable :
                    /\ \A j \in usable : j <= i
                    /\ extracted[1] = text_of(r.messages[i].content)
            /\ (~filled /\ listed /\ usable = {}) => extracted[1] = ""
            /\ (~filled /\ ~listed) => extracted[1] = r.repr

C9_Witness ==
    /\ extracted = Some("Hey, I'm here.")
    /\ ~run_response[1].content.bool
    /\ Len(run_response[1].messages) = 2
    /\ run_response[1].messages[1].content = PyStr("Hey, I'm here.")
    /\ run_response[1].messages[2].has_content
    /\ run_response[1].messages[2].content = PyStr("")

\* no step removes a session or shortens a history
C10_StoreOnlyGrows ==
    \A key \in DOMAIN store :
        /\ key \in DOMAIN store'
        /\ Len(store'[key]) >= Len(store[key])
        /\ SubSeq(store'[key], 1, Len(store[key])) = store[key]

\* the request just served has its session in the store, created or changed
C10_TurnRecorded ==
    LET key == <<UserOf(request'), response'.body.session_id>>
    IN  /\ key \in DOMAIN store'
        /\ key \in DOMAIN store => store'[key] # store[key]

\* C10 as stated: every POST /chat that returns a 200 response carrying
\* session_id s has created the session (user_id, s) if it did not exist and
\* has changed its history, and no step removes a session or shortens a
\* history.
C10_AsStated ==
    [][/\ C10_StoreOnlyGrows
       /\ (handled' = handled + 1 /\ response'.status = 200) => C10_TurnRecorded]_vars

\* C10, amended: every POST /chat that returns a 200 response on the normal
\* branch (is_crisis = false) carrying session_id s has created the session
\* (user_id, s) if it did not exist and has changed its history, and no step
\* removes a session or shortens a history.
C10_Amended ==
    [][/\ C10_StoreOnlyGrows
       /\ (/\ handled' = handled + 1
           /\ response'.status = 200
           /\ response'.body.is_crisis = FALSE) => C10_TurnRecorded]_vars

C10_Witness ==
    /\ ChatServed
    /\ response.status = 200
    /\ response.body.is_crisis = FALSE
    /\ <<UserOf(request), response.body.session_id>> \in DOMAIN store
    /\ Len(store[<<UserOf(request), response.body.session_id>>]) = 2

====
